---- MODULE Spec2Model ----
(***************************************************************************)
(* A model of dynamic_server.mjs: the Express application that serves the  *)
(* economic-freedom dataset by year, by country and by rank, its template  *)
(* renderer, and its SIGINT shutdown.                                      *)
(*                                                                         *)
(* Text is a sequence of atoms.  An atom is one character ("a", "1", "/"), *)
(* or a fixed chunk of text the program writes as a whole ("<tr>",         *)
(* "/year/", "{{title}}").  The two characters outside ASCII, U+00D4 and   *)
(* U+00F4 (O / o with circumflex), are written "O^" and "o^".              *)
(*                                                                         *)
(* A value of the table, and the JavaScript value the driver hands back    *)
(* for it, is a record [t, n, s]: an integer (a JS number), a text (a JS   *)
(* string) or NULL (JS null).                                              *)
(***************************************************************************)
EXTENDS Integers, Sequences, FiniteSets, TLC

VARIABLES db, reqs, proc, tpl

vars == <<db, reqs, proc, tpl>>

----------------------------------------------------------------------------
(* Bounds of the model.                                                    *)

\* rows of economic_data in one dataset
MaxRecords == 2
\* requests in flight at once in the concurrent specification
MaxReq == 2
\* interrupt signals delivered to the process
MaxSigint == 2
\* atoms in a template text handed to renderTemplate
MaxTplLen == 3

----------------------------------------------------------------------------
(* Values and characters.                                                  *)

IntV(n) == [t |-> "int", n |-> n, s |-> <<>>]
TextV(s) == [t |-> "text", n |-> 0, s |-> s]
NullV == [t |-> "null", n |-> 0, s |-> <<>>]
\* JavaScript's undefined
Undefined == [t |-> "undefined", n |-> 0, s |-> <<>>]

Range(f) == {f[i] : i \in DOMAIN f}

Digits == <<"0", "1", "2", "3", "4", "5", "6", "7", "8", "9">>

IsDigit(c) == c \in Range(Digits)

DigitVal(c) == (CHOOSE i \in DOMAIN Digits : Digits[i] = c) - 1

\* <<upper, lower, code point of upper, code point of lower>> of the ASCII
\* letters the model's texts use
AsciiLetters ==
    {<<"A", "a", 65, 97>>, <<"B", "b", 66, 98>>, <<"C", "c", 67, 99>>,
     <<"H", "h", 72, 104>>, <<"L", "l", 76, 108>>, <<"N", "n", 78, 110>>,
     <<"U", "u", 85, 117>>, <<"X", "x", 88, 120>>, <<"Z", "z", 90, 122>>}

\* the same for the letter outside ASCII, U+00D4 / U+00F4
OtherLetters == {<<"O^", "o^", 212, 244>>}

Letters == AsciiLetters \cup OtherLetters

\* the code point of a character: the order of ORDER BY on text (BINARY
\* collation compares bytes, and UTF-8 keeps the code point order)
CharCode(c) ==
    CASE c = " " -> 32
      [] c = "/" -> 47
      [] IsDigit(c) -> 48 + DigitVal(c)
      [] \E p \in Letters : p[1] = c -> (CHOOSE p \in Letters : p[1] = c)[3]
      [] \E p \in Letters : p[2] = c -> (CHOOSE p \in Letters : p[2] = c)[4]
      [] OTHER -> 0

----------------------------------------------------------------------------
(* JavaScript's conversions, as the handlers use them.                     *)

\* String.prototype.toLowerCase: Unicode case mapping
toLowerCaseChar(c) ==
    IF \E p \in Letters : p[1] = c THEN (CHOOSE p \in Letters : p[1] = c)[2] ELSE c

toLowerCase(s) == [i \in DOMAIN s |-> toLowerCaseChar(s[i])]

RECURSIVE DecimalValue(_)
\* the value of a non-empty text of decimal digits
DecimalValue(s) ==
    IF Len(s) = 0 THEN 0
    ELSE 10 * DecimalValue(SubSeq(s, 1, Len(s) - 1)) + DigitVal(s[Len(s)])

IsDecimal(s) == Len(s) > 0 /\ \A i \in DOMAIN s : IsDigit(s[i])

IsHexDigit(c) == IsDigit(c) \/ c \in {"a", "b", "c", "A", "B", "C"}

HexDigitVal(c) ==
    IF IsDigit(c) THEN DigitVal(c)
    ELSE CASE c \in {"a", "A"} -> 10 [] c \in {"b", "B"} -> 11 [] OTHER -> 12

RECURSIVE HexValue(_)
HexValue(s) ==
    IF Len(s) = 0 THEN 0
    ELSE 16 * HexValue(SubSeq(s, 1, Len(s) - 1)) + HexDigitVal(s[Len(s)])

IsHexLiteral(s) ==
    /\ Len(s) > 2
    /\ s[1] = "0"
    /\ s[2] \in {"x", "X"}
    /\ \A i \in 3..Len(s) : IsHexDigit(s[i])

RECURSIVE TrimLeft(_)
TrimLeft(s) == IF Len(s) > 0 /\ s[1] = " " THEN TrimLeft(Tail(s)) ELSE s

RECURSIVE TrimRight(_)
TrimRight(s) ==
    IF Len(s) > 0 /\ s[Len(s)] = " " THEN TrimRight(SubSeq(s, 1, Len(s) - 1)) ELSE s

\* Number(text): StringToNumber over the model's alphabet.  White space is
\* trimmed, the empty text is 0, decimal digits and a 0x literal are numbers,
\* anything else is NaN.  (Signs, fractions and exponents are not in the
\* alphabet.)
Number(s) ==
    LET u == TrimRight(TrimLeft(s)) IN
    CASE Len(u) = 0 -> [nan |-> FALSE, n |-> 0]
      [] IsDecimal(u) -> [nan |-> FALSE, n |-> DecimalValue(u)]
      [] IsHexLiteral(u) -> [nan |-> FALSE, n |-> HexValue(SubSeq(u, 3, Len(u)))]
      [] OTHER -> [nan |-> TRUE, n |-> 0]

isNaN(x) == x.nan

RECURSIVE NatToText(_)
NatToText(n) ==
    IF n < 10 THEN <<Digits[n + 1]>>
    ELSE NatToText(n \div 10) \o <<Digits[(n % 10) + 1]>>

\* String(v), and `${v}` in a template literal
String(v) ==
    CASE v.t = "int" -> NatToText(v.n)
      [] v.t = "text" -> v.s
      [] v.t = "null" -> <<"n", "u", "l", "l">>
      [] OTHER -> <<"undefined">>

\* the characters encodeURIComponent leaves alone, of the model's alphabet
IsUnreserved(c) == IsDigit(c) \/ \E p \in AsciiLetters : c \in {p[1], p[2]}

\* the UTF-8 percent escapes of the other characters of the alphabet
PercentEscape(c) ==
    CASE c = " " -> <<"%", "2", "0">>
      [] c = "/" -> <<"%", "2", "F">>
      [] c = "%" -> <<"%", "2", "5">>
      [] c = "O^" -> <<"%", "C", "3", "%", "9", "4">>
      [] c = "o^" -> <<"%", "C", "3", "%", "B", "4">>
      [] OTHER -> <<c>>

RECURSIVE encodeURIComponent(_)
encodeURIComponent(s) ==
    IF Len(s) = 0 THEN <<>>
    ELSE (IF IsUnreserved(s[1]) THEN <<s[1]>> ELSE PercentEscape(s[1]))
         \o encodeURIComponent(Tail(s))

Escaped == {" ", "/", "%", "O^", "o^"}

IsPrefix(p, s) == Len(p) <= Len(s) /\ SubSeq(s, 1, Len(p)) = p

RECURSIVE decodeURIComponent(_)
\* Express decodes a path parameter with decodeURIComponent
decodeURIComponent(s) ==
    IF Len(s) = 0 THEN <<>>
    ELSE IF \E c \in Escaped : IsPrefix(PercentEscape(c), s)
         THEN LET c == CHOOSE c \in Escaped : IsPrefix(PercentEscape(c), s) IN
              <<c>> \o decodeURIComponent(SubSeq(s, Len(PercentEscape(c)) + 1, Len(s)))
         ELSE <<s[1]>> \o decodeURIComponent(Tail(s))

----------------------------------------------------------------------------
(* The dataset: the table economic_data, and SQLite's rules for it.        *)

\* a stable sort of s: before is the set of <<i, j>> with s[i] ordered
\* before s[j] (a strict weak order); rows that tie keep their order
SortBy(s, before) ==
    LET pos(i) == 1 + Cardinality({j \in DOMAIN s :
                        \/ <<j, i>> \in before
                        \/ (<<i, j>> \notin before /\ j < i)})
    IN [k \in DOMAIN s |-> s[CHOOSE i \in DOMAIN s : pos(i) = k]]

\* the pairs of places of s
Pairs(s) == (DOMAIN s) \X (DOMAIN s)

RECURSIVE TextLess(_, _)
\* memcmp order of two texts
TextLess(a, b) ==
    CASE Len(b) = 0 -> FALSE
      [] Len(a) = 0 -> TRUE
      [] a[1] # b[1] -> CharCode(a[1]) < CharCode(b[1])
      [] OTHER -> TextLess(Tail(a), Tail(b))

\* the order of ORDER BY ... ASC: NULL, then numbers, then text
SqlLess(a, b) ==
    CASE a.t = "null" -> b.t # "null"
      [] a.t = "int" -> (b.t = "int" /\ a.n < b.n) \/ b.t = "text"
      [] OTHER -> b.t = "text" /\ TextLess(a.s, b.s)

\* a text that SQLite's numeric affinity turns into an integer: decimal
\* digits, white space around them allowed; a 0x literal stays text
IsSqlInteger(s) == IsDecimal(TrimRight(TrimLeft(s)))

\* what a column of the given affinity stores for a value
ApplyAffinity(aff, v) ==
    CASE aff = "INTEGER" /\ v.t = "text" /\ IsSqlInteger(v.s) ->
            IntV(DecimalValue(TrimRight(TrimLeft(v.s))))
      [] aff = "TEXT" /\ v.t = "int" -> TextV(NatToText(v.n))
      [] OTHER -> v

\* column = ?  with a bound JavaScript string: the column's affinity is
\* applied to the parameter, then the values are compared; NULL equals nothing
SqlEquals(aff, stored, param) ==
    LET q == ApplyAffinity(aff, TextV(param)) IN
    stored.t # "null" /\ stored = q

\* SQLite's built-in lower(): ASCII letters only
SqlLowerChar(c) ==
    IF \E p \in AsciiLetters : p[1] = c
    THEN (CHOOSE p \in AsciiLetters : p[1] = c)[2]
    ELSE c

SqlLower(s) == [i \in DOMAIN s |-> SqlLowerChar(s[i])]

RECURSIVE SortedSeqOf(_)
SortedSeqOf(S) ==
    IF S = {} THEN <<>>
    ELSE LET m == CHOOSE x \in S : \A y \in S \ {x} : SqlLess(x, y) IN
         <<m>> \o SortedSeqOf(S \ {m})

\* the elements of s at the places I, in their order
SelectWhere(s, I) ==
    [k \in 1..Cardinality(I) |->
        s[CHOOSE i \in I : Cardinality({j \in I : j < i}) = k - 1]]

\* SELECT DISTINCT year AS y FROM economic_data ORDER BY y
yearsSql(d) == SortedSeqOf({d.rows[i].year : i \in DOMAIN d.rows})

\* SELECT DISTINCT country AS c FROM economic_data ORDER BY c
countriesSql(d) == SortedSeqOf({d.rows[i].country : i \in DOMAIN d.rows})

\* SELECT DISTINCT rank AS c FROM economic_data ORDER BY c
rankSql(d) == SortedSeqOf({d.rows[i].rank : i \in DOMAIN d.rows})

Project(r) ==
    [country |-> r.country, year |-> r.year,
     FreedomIndex |-> r.economic_freedom_summary_index]

\* ... WHERE year = ? ORDER BY FreedomIndex DESC, country ASC
yearDetailSql(d, yearParam) ==
    LET hit == SelectWhere(d.rows, {i \in DOMAIN d.rows :
                                      SqlEquals(d.aff, d.rows[i].year, yearParam)})
        before == {p \in Pairs(hit) :
            LET a == hit[p[1]]
                b == hit[p[2]]
            IN \/ SqlLess(b.economic_freedom_summary_index, a.economic_freedom_summary_index)
               \/ /\ a.economic_freedom_summary_index = b.economic_freedom_summary_index
                  /\ SqlLess(a.country, b.country)}
        sorted == SortBy(hit, before)
    IN [i \in DOMAIN sorted |-> Project(sorted[i])]

\* ... WHERE lower(country) = lower(?) ORDER BY FreedomIndex DESC, year DESC
countryDetailSql(d, countryParam) ==
    LET hit == SelectWhere(d.rows, {i \in DOMAIN d.rows :
                    /\ d.rows[i].country.t = "text"
                    /\ SqlLower(d.rows[i].country.s) = SqlLower(countryParam)})
        before == {p \in Pairs(hit) :
            LET a == hit[p[1]]
                b == hit[p[2]]
            IN \/ SqlLess(b.economic_freedom_summary_index, a.economic_freedom_summary_index)
               \/ /\ a.economic_freedom_summary_index = b.economic_freedom_summary_index
                  /\ SqlLess(b.year, a.year)}
        sorted == SortBy(hit, before)
    IN [i \in DOMAIN sorted |-> Project(sorted[i])]

\* ... WHERE rank = ? ORDER BY year
rankDetailSql(d, rankParam) ==
    LET hit == SelectWhere(d.rows, {i \in DOMAIN d.rows :
                                      SqlEquals(d.aff, d.rows[i].rank, rankParam)})
        before == {p \in Pairs(hit) : SqlLess(hit[p[1]].year, hit[p[2]].year)}
        sorted == SortBy(hit, before)
    IN [i \in DOMAIN sorted |-> Project(sorted[i])]

----------------------------------------------------------------------------
(* The route handlers' computations.                                       *)

\* Array.prototype.indexOf: the first index (from 0) of an element strictly
\* equal to x, or -1.  A number never equals a string.
indexOf(arr, x) ==
    IF \E i \in DOMAIN arr : arr[i] = x
    THEN (CHOOSE i \in DOMAIN arr : arr[i] = x /\ \A j \in 1..(i - 1) : arr[j] # x) - 1
    ELSE -1

\* Array.prototype.findIndex: the first index (from 0) among the places
\* that pass the test, or -1
findIndex(passing) ==
    IF passing = {} THEN -1
    ELSE (CHOOSE i \in passing : \A j \in passing : i <= j) - 1

\* arr[i], indices from 0; undefined outside the array
At(arr, i) == IF i + 1 \in DOMAIN arr THEN arr[i + 1] ELSE Undefined

\* isNaN(Number(p)) ? p : Number(p)
NumericTarget(p) ==
    LET num == Number(p) IN IF isNaN(num) THEN TextV(p) ELSE IntV(num.n)

yearIdx(years, yearParam) == indexOf(years, NumericTarget(yearParam))

\* c => String(c).toLowerCase() === String(countryParam).toLowerCase()
countryIdx(countries, countryParam) ==
    findIndex({i \in DOMAIN countries :
                 toLowerCase(String(countries[i])) = toLowerCase(countryParam)})

rankIdx(ranks, rankParam) == indexOf(ranks, NumericTarget(rankParam))

\* a slip: if (!idx) for if (idx === -1)
NotFound_Falsy(idx) == idx = 0

\* idx === -1
NotFound(idx) == idx = -1

\* keys[(idx - 1 + keys.length) % keys.length]
PrevKey(keys, idx) ==
    IF Len(keys) = 0 THEN Undefined ELSE At(keys, (idx - 1 + Len(keys)) % Len(keys))

\* keys[(idx + 1) % keys.length]
NextKey(keys, idx) ==
    IF Len(keys) = 0 THEN Undefined ELSE At(keys, (idx + 1) % Len(keys))

\* a slip: res.send(...) without res.status(500)
DatabaseError_NoStatus(message) == [status |-> 200, body |-> <<"Database error: ", message>>]

\* res.status(500).send('Database error: ' + e.message)
DatabaseError(message) == [status |-> 500, body |-> <<"Database error: ", message>>]

\* res.status(404).send(`Error: no data for <dimension> ${param}`)
NoData(dimension, param) ==
    [status |-> 404, body |-> <<"Error: no data for ", dimension, " ">> \o param]

\* !rows || rows.length === 0
NoRows(rows) == Len(rows) = 0

\* v ?? 'N/A', written into a template literal
Cell(v) == IF v.t \in {"null", "undefined"} THEN <<"N", "/", "A">> ELSE String(v)

\* Number(v ?? 0)
NumberOr0(v) == IF v.t \in {"null", "undefined"} THEN 0 ELSE v.n

RECURSIVE Join(_)
\* parts.join('')
Join(parts) == IF Len(parts) = 0 THEN <<>> ELSE parts[1] \o Join(Tail(parts))

\* one <tr> of <td> cells; the white space of the literal goes with the tags
TableRow(cells) ==
    <<"<tr>">> \o Join([i \in DOMAIN cells |-> <<"<td>">> \o cells[i] \o <<"</td>">>])
    \o <<"</tr>">>

\* String(x).replace(/"/g, '\\"')
EscapeQuotes(s) ==
    Join([i \in DOMAIN s |-> IF s[i] = "\"" THEN <<"\\", "\"">> ELSE <<s[i]>>])

\* the chart of the year page shows the first rows only
ChartTop == 10

\* rows.slice().sort(by FreedomIndex ?? 0, descending).slice(0, 10)
TopRows(rows) ==
    LET before == {p \in Pairs(rows) :
                     NumberOr0(rows[p[1]].FreedomIndex) > NumberOr0(rows[p[2]].FreedomIndex)}
        sorted == SortBy(rows, before)
    IN SubSeq(sorted, 1, IF Len(sorted) < ChartTop THEN Len(sorted) ELSE ChartTop)

\* `/year/${key}`
yearLink(key) == <<"/year/">> \o String(key)

\* `/country/${encodeURIComponent(key)}`
countryLink(key) == <<"/country/">> \o encodeURIComponent(String(key))

\* a slip: the rank link written like the year link
rankLink_Raw(key) == <<"/rank/">> \o String(key)

\* `/rank/${encodeURIComponent(key)}`
rankLink(key) == <<"/rank/">> \o encodeURIComponent(String(key))

\* res.send(renderTemplate(readTemplate(file), data)): status 200.  The
\* template files are not part of the source, so the page is kept as the
\* file's name and the fields handed to renderTemplate.
Page(file, data) == [status |-> 200, body |-> [template |-> file, data |-> data]]

yearPage(yearParam, rows, prevYear, nextYear) ==
    LET top == TopRows(rows) IN
    Page("year.html",
         [title |-> <<"Year ">> \o yearParam \o <<" - Economic Freedom">>,
          pageTitle |-> <<"Year ">> \o yearParam,
          year |-> yearParam,
          tableRows |-> Join([i \in DOMAIN rows |->
                          TableRow(<<Cell(rows[i].country), Cell(rows[i].FreedomIndex)>>)]),
          prevLink |-> yearLink(prevYear),
          nextLink |-> yearLink(nextYear),
          chartLabels |-> [i \in DOMAIN top |-> EscapeQuotes(String(top[i].country))],
          chartData |-> [i \in DOMAIN top |-> NumberOr0(top[i].FreedomIndex)]])

countryPage(rows, prev, next) ==
    Page("country.html",
         [title |-> <<"Freedom - ">> \o String(rows[1].country),
          pageTitle |-> <<"Freedom Scores: ">> \o String(rows[1].country),
          tableRows |-> Join([i \in DOMAIN rows |->
                          TableRow(<<Cell(rows[i].year), Cell(rows[i].FreedomIndex)>>)]),
          prevLink |-> countryLink(prev),
          nextLink |-> countryLink(next),
          chartLabels |-> [i \in DOMAIN rows |-> rows[i].year],
          chartData |-> [i \in DOMAIN rows |-> NumberOr0(rows[i].FreedomIndex)]])

rankPage(rankParam, rows, prev, next) ==
    Page("rank.html",
         [title |-> <<"Rank ">> \o rankParam \o <<" - Economic Freedom">>,
          pageTitle |-> <<"Rank ">> \o rankParam \o <<" across years">>,
          tableRows |-> Join([i \in DOMAIN rows |->
                          TableRow(<<Cell(rows[i].year), Cell(rows[i].country),
                                     Cell(rows[i].FreedomIndex)>>)]),
          prevLink |-> rankLink(prev),
          nextLink |-> rankLink(next),
          chartLabels |-> [i \in DOMAIN rows |-> rows[i].year],
          chartData |-> [i \in DOMAIN rows |-> NumberOr0(rows[i].FreedomIndex)]])

----------------------------------------------------------------------------
(* renderTemplate.  A template is a text in which a token {{key}} is one   *)
(* atom; data is the list of [key, value] that Object.entries yields.      *)

\* `{{${key}}}`
Placeholder(key) == "{{" \o key \o "}}"

RECURSIVE ExpandReplacement(_, _)
\* String.prototype.replace with a replacement string: $$ is a "$", $& is
\* the matched text, any other character is itself
ExpandReplacement(value, matched) ==
    CASE Len(value) = 0 -> <<>>
      [] Len(value) >= 2 /\ value[1] = "$" /\ value[2] = "$" ->
            <<"$">> \o ExpandReplacement(SubSeq(value, 3, Len(value)), matched)
      [] Len(value) >= 2 /\ value[1] = "$" /\ value[2] = "&" ->
            <<matched>> \o ExpandReplacement(SubSeq(value, 3, Len(value)), matched)
      [] OTHER -> <<value[1]>> \o ExpandReplacement(Tail(value), matched)

\* value ?? ''
OrEmpty(value) == IF value.t \in {"null", "undefined"} THEN <<>> ELSE String(value)

\* rendered.replace(new RegExp(placeholder, 'g'), value ?? '')
ReplaceAll(rendered, placeholder, value) ==
    Join([i \in DOMAIN rendered |->
            IF rendered[i] = placeholder
            THEN ExpandReplacement(OrEmpty(value), placeholder)
            ELSE <<rendered[i]>>])

RECURSIVE renderTemplate(_, _)
\* one replace per entry of data, in order, each on the text so far
renderTemplate(templateContent, data) ==
    IF Len(data) = 0 THEN templateContent
    ELSE renderTemplate(ReplaceAll(templateContent, Placeholder(data[1].key), data[1].value),
                        Tail(data))

----------------------------------------------------------------------------
(* The inputs: datasets and requests.                                      *)

Row(c, y, r, x) ==
    [country |-> c, year |-> y, rank |-> r, economic_freedom_summary_index |-> x]

\* the rows a dataset is made of, as they are inserted
Universe ==
    << Row(TextV(<<"C", "h">>), IntV(1), IntV(1), IntV(8)),
       Row(TextV(<<"C", "h">>), IntV(2), IntV(2), IntV(9)),
       Row(TextV(<<"O^", "b">>), IntV(1), NullV, NullV),
       Row(TextV(<<"A", " ", "b">>), IntV(2), TextV(<<"n", "/", "a">>), IntV(7)),
       Row(TextV(<<"c", "h">>), IntV(1), IntV(2), IntV(8)) >>

\* the declared type of the year and rank columns
Affinities == {"INTEGER", "TEXT"}

\* the table with the rows of Universe at the places I, in a year and rank
\* column of affinity aff
Dataset(aff, I) ==
    LET pick == SelectWhere([i \in DOMAIN Universe |-> i], I) IN
    [aff |-> aff,
     rows |-> [k \in DOMAIN pick |->
                 LET u == Universe[pick[k]] IN
                 Row(u.country, ApplyAffinity(aff, u.year), ApplyAffinity(aff, u.rank),
                     u.economic_freedom_summary_index)]]

Datasets ==
    {Dataset(aff, I) : aff \in Affinities,
                       I \in {J \in SUBSET DOMAIN Universe : Cardinality(J) <= MaxRecords}}

YearParams == {<<"1">>, <<"2">>, <<"3">>, <<"0", "1">>, <<"0", "x", "1">>}

CountryParams ==
    {<<"C", "h">>, <<"C", "H">>, <<"c", "h">>, <<"O^", "b">>, <<"o^", "b">>,
     <<"A", " ", "b">>, <<"Z", "z">>}

RankParams == {<<"1">>, <<"2">>, <<"3">>, <<"0", "x", "2">>, <<"n", "/", "a">>, <<"N", "/", "A">>}

\* err of a query callback: null, or an Error with this message
NoError == "null"
DbErrors == {"SQLITE_ERROR"}

----------------------------------------------------------------------------
(* The state.                                                              *)
(*   db     the dataset (never written)                                    *)
(*   reqs   per request: where its handler stands (pc), its path parameter,*)
(*          the handler's closure (idx, n, prev, next), what was sent on   *)
(*          its response, and a history of its queries and of the link it  *)
(*          came by                                                        *)
(*   proc   the process: running or exited, calls of db.close awaiting     *)
(*          their callback, the exit status, the last line logged          *)
(*   tpl    one call of renderTemplate: the template, the fields, the text *)

Idle ==
    [pc |-> "idle", route |-> "none", param |-> <<>>,
     idx |-> -1, n |-> 0, prev |-> NullV, next |-> NullV,
     sent |-> <<>>,
     keysIssued |-> 0, detailIssued |-> 0, keysErr |-> NoError, detailErr |-> NoError,
     via |-> "direct", from |-> -1]

ProcInit == [state |-> "running", closing |-> 0, sigints |-> 0, exitCode |-> -1, log |-> "none"]

TplIdle == [pc |-> "idle", template |-> <<>>, data |-> <<>>, out |-> <<>>]

Running == proc.state = "running"

\* app.get(path, handler): the handler issues the distinct-key query
Arrive(c, route, param, via, from) ==
    /\ Running
    /\ reqs' = [reqs EXCEPT ![c] =
                  [Idle EXCEPT !.pc = "keys", !.route = route, !.param = param,
                               !.keysIssued = 1, !.via = via, !.from = from]]
    /\ UNCHANGED <<db, proc, tpl>>

\* a slip: the 404 of the distinct-key callback sent without return
OnKeys_NoReturn(c, err, keys, idx, dimension, dberror) ==
    LET r == reqs[c] IN
    /\ Running
    /\ r.pc = "keys"
    /\ reqs' = [reqs EXCEPT ![c] =
         IF err # NoError
         THEN [r EXCEPT !.pc = "done", !.keysErr = err, !.sent = Append(@, dberror)]
         ELSE [r EXCEPT !.pc = "detail", !.idx = idx, !.n = Len(keys),
                        !.prev = PrevKey(keys, idx), !.next = NextKey(keys, idx),
                        !.detailIssued = @ + 1,
                        !.sent = IF NotFound(idx)
                                 THEN Append(@, NoData(dimension, r.param)) ELSE @]]
    /\ UNCHANGED <<db, proc, tpl>>

\* the callback of the distinct-key query
OnKeys(c, err, keys, idx, dimension, dberror) ==
    LET r == reqs[c] IN
    /\ Running
    /\ r.pc = "keys"
    /\ reqs' = [reqs EXCEPT ![c] =
         IF err # NoError
         THEN [r EXCEPT !.pc = "done", !.keysErr = err, !.sent = Append(@, dberror)]
         ELSE IF NotFound(idx)
         THEN [r EXCEPT !.pc = "done", !.n = Len(keys),
                        !.sent = Append(@, NoData(dimension, r.param))]
         ELSE [r EXCEPT !.pc = "detail", !.idx = idx, !.n = Len(keys),
                        !.prev = PrevKey(keys, idx), !.next = NextKey(keys, idx),
                        !.detailIssued = @ + 1]]
    /\ UNCHANGED <<db, proc, tpl>>

\* the callback of the detail query
OnDetail(c, err, rows, dimension, page, dberror) ==
    LET r == reqs[c] IN
    /\ Running
    /\ r.pc = "detail"
    /\ reqs' = [reqs EXCEPT ![c] =
         IF err # NoError
         THEN [r EXCEPT !.pc = "done", !.detailErr = err, !.sent = Append(@, dberror)]
         ELSE IF NoRows(rows)
         THEN [r EXCEPT !.pc = "done", !.sent = Append(@, NoData(dimension, r.param))]
         ELSE [r EXCEPT !.pc = "done", !.sent = Append(@, page)]]
    /\ UNCHANGED <<db, proc, tpl>>

Errors == {NoError} \cup DbErrors

GetYear(c) ==
    \E p \in YearParams : reqs[c].pc = "idle" /\ Arrive(c, "year", p, "direct", -1)

YearKeys(c) ==
    /\ reqs[c].route = "year"
    /\ reqs[c].pc = "keys"
    /\ \E err \in Errors, years \in {yearsSql(db)} :
          OnKeys(c, err, years, yearIdx(years, reqs[c].param), "year", DatabaseError(err))

YearDetail(c) ==
    /\ reqs[c].route = "year"
    /\ reqs[c].pc = "detail"
    /\ \E err \in Errors, rows \in {yearDetailSql(db, reqs[c].param)} :
          \E page \in {IF NoRows(rows) THEN <<>>
                       ELSE yearPage(reqs[c].param, rows, reqs[c].prev, reqs[c].next)} :
              OnDetail(c, err, rows, "year", page, DatabaseError(err))

GetCountry(c) ==
    \E p \in CountryParams : reqs[c].pc = "idle" /\ Arrive(c, "country", p, "direct", -1)

CountryKeys(c) ==
    /\ reqs[c].route = "country"
    /\ reqs[c].pc = "keys"
    /\ \E err \in Errors, countries \in {countriesSql(db)} :
          OnKeys(c, err, countries, countryIdx(countries, reqs[c].param), "country",
                 DatabaseError(err))

CountryDetail(c) ==
    /\ reqs[c].route = "country"
    /\ reqs[c].pc = "detail"
    /\ \E err \in Errors, rows \in {countryDetailSql(db, reqs[c].param)} :
          \E page \in {IF NoRows(rows) THEN <<>>
                       ELSE countryPage(rows, reqs[c].prev, reqs[c].next)} :
              OnDetail(c, err, rows, "country", page, DatabaseError(err))

GetRank(c) ==
    \E p \in RankParams : reqs[c].pc = "idle" /\ Arrive(c, "rank", p, "direct", -1)

RankKeys(c) ==
    /\ reqs[c].route = "rank"
    /\ reqs[c].pc = "keys"
    /\ \E err \in Errors, ranks \in {rankSql(db)} :
          OnKeys(c, err, ranks, rankIdx(ranks, reqs[c].param), "rank", DatabaseError(err))

RankDetail(c) ==
    /\ reqs[c].route = "rank"
    /\ reqs[c].pc = "detail"
    /\ \E err \in Errors, rows \in {rankDetailSql(db, reqs[c].param)} :
          \E page \in {IF NoRows(rows) THEN <<>>
                       ELSE rankPage(reqs[c].param, rows, reqs[c].prev, reqs[c].next)} :
              OnDetail(c, err, rows, "rank", page, DatabaseError(err))

\* the client follows the previous or next link of a page it was sent: a new
\* request for the link's path, whose parameter Express decodes
FollowLink(c) ==
    \E which \in {"prev", "next"} :
        LET r == reqs[c]
            page == r.sent[Len(r.sent)]
            link == IF which = "prev" THEN page.body.data.prevLink
                    ELSE page.body.data.nextLink
            param == decodeURIComponent(Tail(link))
        IN /\ r.pc = "done"
           /\ Len(r.sent) > 0
           /\ page.status = 200
           /\ Len(param) > 0
           /\ Arrive(c, r.route, param, which, r.idx)

\* process.on('SIGINT'): db.close(callback)
Sigint ==
    /\ Running
    /\ proc.sigints < MaxSigint
    /\ proc' = [proc EXCEPT !.sigints = @ + 1, !.closing = @ + 1]
    /\ UNCHANGED <<db, reqs, tpl>>

\* a slip: process.exit(err ? 1 : 0)
ExitStatus_FromErr(err) == IF err # NoError THEN 1 ELSE 0

\* the status process.exit is called with
ExitStatus(err) == 0

\* the callback of db.close: log the outcome, then process.exit(0)
CloseCallback ==
    \E err \in Errors :
        /\ Running
        /\ proc.closing > 0
        /\ proc' = [proc EXCEPT !.state = "exited", !.closing = @ - 1,
                                !.exitCode = ExitStatus(err),
                                !.log = IF err # NoError THEN "Error closing database:"
                                        ELSE "Database connection closed"]
        /\ UNCHANGED <<db, reqs, tpl>>

Clients == DOMAIN reqs

Init ==
    /\ db \in Datasets
    /\ reqs = [c \in {1} |-> Idle]
    /\ proc = ProcInit
    /\ tpl = TplIdle

Next ==
    \/ \E c \in Clients : GetYear(c)
    \/ \E c \in Clients : YearKeys(c)
    \/ \E c \in Clients : YearDetail(c)
    \/ \E c \in Clients : GetCountry(c)
    \/ \E c \in Clients : CountryKeys(c)
    \/ \E c \in Clients : CountryDetail(c)
    \/ \E c \in Clients : GetRank(c)
    \/ \E c \in Clients : RankKeys(c)
    \/ \E c \in Clients : RankDetail(c)
    \/ \E c \in Clients : FollowLink(c)
    \/ Sigint
    \/ CloseCallback

Spec == Init /\ [][Next]_vars

----------------------------------------------------------------------------
(* What the claims speak of.                                               *)

\* the response of a request that was answered
Answer(r) == r.sent[Len(r.sent)]

\* a request whose handler has finished and whose queries reported no error
Settled(r) == r.pc = "done" /\ r.keysErr = NoError /\ r.detailErr = NoError

Is200(r) == Len(r.sent) = 1 /\ Answer(r).status = 200

\* the number of <tr> in a text
CountTr(text) == Cardinality({i \in DOMAIN text : text[i] = "<tr>"})

\* the distinct key sequence of a route
KeysOf(route) ==
    CASE route = "year" -> yearsSql(db)
      [] route = "country" -> countriesSql(db)
      [] OTHER -> rankSql(db)

\* the path a route's links start with
LinkPrefix(route) ==
    CASE route = "year" -> "/year/"
      [] route = "country" -> "/country/"
      [] OTHER -> "/rank/"

\* the requested key is in the distinct key sequence of its route
KeyPresent(r) ==
    IF r.route = "country"
    THEN \E k \in Range(countriesSql(db)) : toLowerCase(String(k)) = toLowerCase(r.param)
    ELSE NumericTarget(r.param) \in Range(KeysOf(r.route))

----------------------------------------------------------------------------
(* C1: for every year value of the dataset, a GET /year/:year whose path   *)
(* segment is that year is answered 200 with a table of exactly one <tr>   *)
(* per record of the year.  Stated as claimed; the code breaks it for a    *)
(* year column that stores text.                                           *)
C1_YearPresentGives200 ==
    \A c \in Clients :
        LET r == reqs[c]
            mine == {i \in DOMAIN db.rows : String(db.rows[i].year) = r.param}
        IN (r.route = "year" /\ Settled(r) /\ mine # {}
            /\ \A i \in mine : db.rows[i].year.t # "null")
           => /\ Is200(r)
              /\ CountTr(Answer(r).body.data.tableRows) = Cardinality(mine)

\* the part of C1 the code keeps: the same, for a year column of INTEGER
\* affinity
C1_IntegerYears ==
    db.aff = "INTEGER" => C1_YearPresentGives200

(* C2: a requested key that is not in the distinct key sequence of its     *)
(* route is answered 404 'Error: no data for <dimension> <value>', once;   *)
(* the detail query is not issued and no 200 is sent.                      *)
C2_AbsentKeyGives404 ==
    \A c \in Clients :
        LET r == reqs[c] IN
        (r.pc \in {"detail", "done"} /\ r.keysErr = NoError /\ ~KeyPresent(r))
        => /\ r.pc = "done"
           /\ r.sent = <<[status |-> 404,
                          body |-> <<"Error: no data for ", r.route, " ">> \o r.param]>>
           /\ r.detailIssued = 0

C2_Witness ==
    \E c \in Clients :
        /\ reqs[c].route = "year" /\ reqs[c].pc = "done" /\ reqs[c].keysErr = NoError
        /\ ~KeyPresent(reqs[c])
        /\ Len(db.rows) > 0

(* C3: navigation is circular.  A page for the key at index i of n keys    *)
(* links to the keys at (i-1+n) mod n and (i+1) mod n, and a link that is  *)
(* followed arrives at that key: it is answered 200, at that index.        *)
(* Stated as claimed; the code breaks it when a neighbour key is NULL.     *)
C3_CircularNavigation ==
    \A c \in Clients :
        LET r == reqs[c]
            keys == KeysOf(r.route)
        IN /\ (Settled(r) /\ Is200(r))
              => /\ r.prev = keys[((r.idx - 1 + r.n) % r.n) + 1]
                 /\ r.next = keys[((r.idx + 1) % r.n) + 1]
           /\ (Settled(r) /\ r.via = "next")
              => (Is200(r) /\ r.idx = (r.from + 1) % r.n)
           /\ (Settled(r) /\ r.via = "prev")
              => (Is200(r) /\ r.idx = (r.from - 1 + r.n) % r.n)

(* C5: a path segment that converts to a number equal to a stored integer  *)
(* year (rank) finds its key and gets its records: the request ends in 200.*)
(* Stated as claimed; the code breaks it for a segment such as 0x1.        *)
C5_NumericSegmentGives200 ==
    \A c \in Clients :
        LET r == reqs[c] IN
        (r.route \in {"year", "rank"} /\ Settled(r)
         /\ ~isNaN(Number(r.param))
         /\ IntV(Number(r.param).n) \in Range(KeysOf(r.route)))
        => Is200(r)

(* C6: a query error is answered 500 'Database error: <message>' and       *)
(* nothing else; after a failed first query the second is not issued; no   *)
(* query is issued twice.                                                  *)
C6_QueryErrorGives500 ==
    \A c \in Clients :
        LET r == reqs[c] IN
        /\ r.keysIssued <= 1 /\ r.detailIssued <= 1
        /\ r.keysErr # NoError
           => /\ r.sent = <<[status |-> 500, body |-> <<"Database error: ", r.keysErr>>]>>
              /\ r.detailIssued = 0
              /\ r.pc = "done"
        /\ r.detailErr # NoError
           => /\ r.sent = <<[status |-> 500, body |-> <<"Database error: ", r.detailErr>>]>>
              /\ r.pc = "done"

C6_Witness ==
    \E c \in Clients : reqs[c].detailErr # NoError /\ reqs[c].pc = "done"

(* C7: the process exits only in the callback of the db.close that the     *)
(* interrupt handler called, and with status 0 whatever the close reported.*)
C7_ExitAfterClose ==
    [][(proc.state = "running" /\ proc'.state = "exited")
       => /\ proc.sigints > 0
          /\ proc.closing > 0
          /\ proc'.log # "none"
          /\ proc'.exitCode = 0]_vars

C7_Witness == proc.state = "exited" /\ proc.log = "Error closing database:"

(* C9 as claimed: the country route encodes the previous and next key in   *)
(* its links, the year and rank routes write them unchanged.               *)
C9_OnlyCountryEncodes ==
    \A c \in Clients :
        LET r == reqs[c]
            data == Answer(r).body.data
        IN (Settled(r) /\ Is200(r))
           => IF r.route = "country"
              THEN /\ data.prevLink = <<"/country/">> \o encodeURIComponent(String(r.prev))
                   /\ data.nextLink = <<"/country/">> \o encodeURIComponent(String(r.next))
              ELSE /\ data.prevLink = <<LinkPrefix(r.route)>> \o String(r.prev)
                   /\ data.nextLink = <<LinkPrefix(r.route)>> \o String(r.next)

(* C9 as amended: the country and rank routes encode the previous and next *)
(* key in their links; the year route writes them unchanged.               *)
C9_CountryAndRankEncode ==
    \A c \in Clients :
        LET r == reqs[c]
            data == Answer(r).body.data
        IN (Settled(r) /\ Is200(r))
           => IF r.route = "year"
              THEN /\ data.prevLink = <<"/year/">> \o String(r.prev)
                   /\ data.nextLink = <<"/year/">> \o String(r.next)
              ELSE /\ data.prevLink =
                        <<LinkPrefix(r.route)>> \o encodeURIComponent(String(r.prev))
                   /\ data.nextLink =
                        <<LinkPrefix(r.route)>> \o encodeURIComponent(String(r.next))

C9_Witness ==
    \E c \in Clients :
        /\ reqs[c].route = "rank" /\ Settled(reqs[c]) /\ Is200(reqs[c])
        /\ encodeURIComponent(String(reqs[c].next)) # String(reqs[c].next)

----------------------------------------------------------------------------
(* Two requests to the country route, side by side.                        *)

InitPair ==
    /\ db \in Datasets
    /\ reqs = [c \in {1, 2} |-> Idle]
    /\ proc = ProcInit
    /\ tpl = TplIdle

NextPair ==
    \/ \E c \in Clients : GetCountry(c)
    \/ \E c \in Clients : CountryKeys(c)
    \/ \E c \in Clients : CountryDetail(c)

SpecPair == InitPair /\ [][NextPair]_vars

(* C4: two requests to /country/:country whose path segments differ only   *)
(* in letter case get the same status and the same page: rows, links and   *)
(* titles.  Stated as claimed; the code breaks it for a letter outside     *)
(* ASCII.                                                                  *)
C4_CaseInsensitiveCountry ==
    \A c1, c2 \in Clients :
        (/\ reqs[c1].route = "country" /\ reqs[c2].route = "country"
         /\ Settled(reqs[c1]) /\ Settled(reqs[c2])
         /\ toLowerCase(reqs[c1].param) = toLowerCase(reqs[c2].param))
        => /\ Answer(reqs[c1]).status = Answer(reqs[c2]).status
           /\ Answer(reqs[c1]).status = 200
              => Answer(reqs[c1]).body = Answer(reqs[c2]).body

\* the part of C4 the code keeps: the same, for segments of ASCII letters
C4_AsciiSegments ==
    \A c1, c2 \in Clients :
        (/\ reqs[c1].route = "country" /\ reqs[c2].route = "country"
         /\ Settled(reqs[c1]) /\ Settled(reqs[c2])
         /\ SqlLower(reqs[c1].param) = SqlLower(reqs[c2].param))
        => /\ Answer(reqs[c1]).status = Answer(reqs[c2]).status
           /\ Answer(reqs[c1]).status = 200
              => Answer(reqs[c1]).body = Answer(reqs[c2]).body

----------------------------------------------------------------------------
(* Requests in flight together, and the interrupt.                         *)

\* the requests of the concurrent specification
ConcRequests ==
    {<<"year", <<"1">>>>, <<"year", <<"3">>>>, <<"country", <<"c", "H">>>>,
     <<"rank", <<"0", "x", "2">>>>}

ConcDataset == Dataset("INTEGER", {1, 2})

Get(c) ==
    \E q \in ConcRequests : reqs[c].pc = "idle" /\ Arrive(c, q[1], q[2], "direct", -1)

\* a query callback of request c
Callback(c) ==
    \/ YearKeys(c) \/ YearDetail(c)
    \/ CountryKeys(c) \/ CountryDetail(c)
    \/ RankKeys(c) \/ RankDetail(c)

InitConc ==
    /\ db = ConcDataset
    /\ reqs = [c \in 1..MaxReq |-> Idle]
    /\ proc = ProcInit
    /\ tpl = TplIdle

NextConc ==
    \/ \E c \in Clients : Get(c)
    \/ \E c \in Clients : Callback(c)
    \/ Sigint
    \/ CloseCallback

\* a query of request c is outstanding: its callback can fire
CallbackPending(c) == Running /\ reqs[c].pc \in {"keys", "detail"}

\* ENABLED <<Callback(c)>>_vars is CallbackPending(c)
CallbackEnabledWhenPending ==
    \A c \in Clients : CallbackPending(c) <=> ENABLED <<Callback(c)>>_vars

\* weak fairness of Callback(c), WF_vars(Callback(c)), with its ENABLED
\* written out as the state predicate it equals
CallbackFairness(c) == []<>~CallbackPending(c) \/ []<><<Callback(c)>>_vars

\* every query callback fires in the end, unless the process has exited
SpecConc ==
    InitConc /\ [][NextConc]_vars /\ \A c \in 1..MaxReq : CallbackFairness(c)

\* what a request is answered, from its own parameter, the dataset and what
\* its own queries reported
Outcome(route, param, keysErr, detailErr) ==
    LET keys == KeysOf(route)
        idx == CASE route = "year" -> yearIdx(keys, param)
                 [] route = "country" -> countryIdx(keys, param)
                 [] OTHER -> rankIdx(keys, param)
        rows == CASE route = "year" -> yearDetailSql(db, param)
                  [] route = "country" -> countryDetailSql(db, param)
                  [] OTHER -> rankDetailSql(db, param)
    IN CASE keysErr # NoError -> [status |-> 500, body |-> <<"Database error: ", keysErr>>]
         [] idx = -1 -> [status |-> 404, body |-> <<"Error: no data for ", route, " ">> \o param]
         [] detailErr # NoError -> [status |-> 500, body |-> <<"Database error: ", detailErr>>]
         [] Len(rows) = 0 -> [status |-> 404, body |-> <<"Error: no data for ", route, " ">> \o param]
         [] route = "year" -> yearPage(param, rows, PrevKey(keys, idx), NextKey(keys, idx))
         [] route = "country" -> countryPage(rows, PrevKey(keys, idx), NextKey(keys, idx))
         [] OTHER -> rankPage(param, rows, PrevKey(keys, idx), NextKey(keys, idx))

----------------------------------------------------------------------------
(* renderTemplate on its own.                                              *)

TplAtoms == {"x", "{{a}}", "{{b}}", "{{u}}"}

Templates == UNION {[1..n -> TplAtoms] : n \in 0..MaxTplLen}

TplValues ==
    {TextV(<<"v">>), TextV(<<"{{a}}">>), TextV(<<"{{b}}">>), TextV(<<"$", "&">>),
     TextV(<<"$", "$">>), NullV}

\* the fields: a alone, or a and b in either order of insertion
TplData ==
    {<<[key |-> "a", value |-> v]>> : v \in TplValues}
    \cup {<<[key |-> k[1], value |-> v], [key |-> k[2], value |-> w]>> :
            k \in {<<"a", "b">>, <<"b", "a">>}, v \in TplValues, w \in TplValues}

InitRender ==
    /\ db = Dataset("INTEGER", {})
    /\ reqs = <<>>
    /\ proc = ProcInit
    /\ \E t \in Templates, d \in TplData :
          tpl = [pc |-> "call", template |-> t, data |-> d, out |-> <<>>]

Render ==
    /\ tpl.pc = "call"
    /\ tpl' = [tpl EXCEPT !.pc = "done", !.out = renderTemplate(tpl.template, tpl.data)]
    /\ UNCHANGED <<db, reqs, proc>>

NextRender == Render

SpecRender == InitRender /\ [][NextRender]_vars

\* the value of the field key, if data has it
HasField(data, key) == \E i \in DOMAIN data : data[i].key = key

FieldValue(data, key) == data[CHOOSE i \in DOMAIN data : data[i].key = key].value

\* the key of a token, or "" for an atom that is no token of data's keys
TokenKey(data, atom) ==
    IF \E i \in DOMAIN data : atom = "{{" \o data[i].key \o "}}"
    THEN data[CHOOSE i \in DOMAIN data : atom = "{{" \o data[i].key \o "}}"].key
    ELSE ""

(* C8: renderTemplate returns the template with every token of a supplied  *)
(* key replaced by that field's value verbatim ('' for null) and every     *)
(* other atom untouched, whatever the values.  Stated as claimed; the code *)
(* breaks it for a value holding $& or $$, or a later field's token.       *)
C8_VerbatimSubstitution ==
    tpl.pc = "done"
    => tpl.out = Join([i \in DOMAIN tpl.template |->
                        LET k == TokenKey(tpl.data, tpl.template[i]) IN
                        IF k # ""
                        THEN (IF FieldValue(tpl.data, k).t = "null" THEN <<>>
                              ELSE FieldValue(tpl.data, k).s)
                        ELSE <<tpl.template[i]>>])

\* the part of C8 the code keeps: the same, for values that hold neither a
\* "$" nor a token
C8_PlainValues ==
    (\A i \in DOMAIN tpl.data :
        \A j \in DOMAIN tpl.data[i].value.s :
            tpl.data[i].value.s[j] \notin {"$", "{{a}}", "{{b}}"})
    => C8_VerbatimSubstitution

====
